---- MODULE Spec2Model ----
(***************************************************************************)
(* Model of libgit2/merge.rs: do_merge, fast_forward and normal_merge.     *)
(*                                                                         *)
(* The repository is the state: references, HEAD, the commit objects, the  *)
(* Working Set, the repository index, and - during a three-way merge - the *)
(* in-memory merge index idx.  Every git2 call of the three functions is a *)
(* step; a call that returns Err through `?` ends the attempt with that    *)
(* error.  The git2 calls themselves are the external Snapshot Store: a    *)
(* call either fails or has the effect its API documents.                  *)
(*                                                                         *)
(* Paths are 1..NumPaths and a content is a number, 0 meaning "no entry at *)
(* this path"; a tree, the Working Set and an index's stage-0 entries are  *)
(* functions from paths to contents.  The Working Set holds tracked paths: *)
(* files unknown to both the index and the trees are outside the model.    *)
(***************************************************************************)
EXTENDS Integers, Sequences, FiniteSets, TLC

NumPaths == 2

Paths == 1..NumPaths

\* contents of the three sides of a path; 0 = absent
AncContents == {0, 1}
OurContents == {0, 1, 2}
TheirContents == {0, 1, 3}
\* a local, uncommitted edit of a tracked file
DirtyContent == 9

Branches == {"main", "other"}
NoId == "none"

EmptyTree == [p \in Paths |-> 0]

VARIABLES
    rel,            \* how the incoming commit relates to HEAD (input)
    branchName,     \* do_merge's remote_branch argument
    localTree, remoteTree, ancTree,   \* trees of the commits L, R and the merge base
    refs,           \* refs/heads/<b> -> commit id or NoId
    head,           \* the branch HEAD designates (symbolic)
    commits,        \* commit id -> [tree, parents]
    workset,        \* Working Set
    repoIndex,      \* repository index, stage-0 entries
    repoConflicts,  \* paths the repository index holds in conflict
    idxEntries,     \* merge index idx, stage-0 entries
    idxConflicts,   \* paths idx holds in conflict
    conflicts,      \* Vec of conflicts collected at line 42
    hadConflicts,   \* value of idx.has_conflicts() at line 37
    staged,         \* path -> slot whose entry idx.add accepted
    resolved_count,
    i,              \* position of the running for loop
    resultTree,     \* result_tree (NoTree until written)
    logged,         \* the "Resolved k/n conflicts" log lines
    analysisCount,  \* how often merge_analysis was computed
    pre,            \* repository state when do_merge was called
    trace,          \* the store calls of the attempt and whether each succeeded
    result,         \* what do_merge returned
    pc

vars == <<rel, branchName, localTree, remoteTree, ancTree, refs, head, commits,
          workset, repoIndex, repoConflicts, idxEntries, idxConflicts, conflicts,
          hadConflicts, staged, resolved_count, i, resultTree, logged,
          analysisCount, pre, trace, result, pc>>

inputs == <<rel, branchName, localTree, remoteTree, ancTree, pre>>
repo == <<refs, head, commits, workset, repoIndex, repoConflicts>>
mergeState == <<idxEntries, idxConflicts, conflicts, hadConflicts, staged,
                resolved_count, i, resultTree, logged>>

-----------------------------------------------------------------------------
(* Values *)

\* fetch_commit.id()
RemoteId == "R"
\* head_commit.id(): the commit HEAD designated when do_merge was called
LocalId == pre.refs[pre.head]

\* what do_merge returned: kind, the failed store call, and the resolved/total
\* counts its error message names (<<>>: none)
NoResult == [kind |-> "none", op |-> "", counts |-> <<>>]
Ok == [kind |-> "ok", op |-> "", counts |-> <<>>]
\* a git2::Error of a failed store call, passed on by `?`
StoreError(op) == [kind |-> "store", op |-> op, counts |-> <<>>]
\* line 119: git2::Error::from_str("Could not resolve all merge conflicts
\* automatically"), a fixed message
ConflictError == [kind |-> "conflict", op |-> "", counts |-> <<>>]

TreeOf(id) == (CHOOSE c \in commits : c.id = id).tree
HeadTree == TreeOf(refs[head])

\* analysis.0 of merge_analysis: libgit2 sets FASTFORWARD together with UNBORN or
\* with NORMAL
Analysis(r) ==
    [fast_forward |-> r \in {"unborn", "ff"},
     normal |-> r \in {"ff", "normal"}]

Entry(op, ok) == [op |-> op, ok |-> ok]

-----------------------------------------------------------------------------
(* The Snapshot Store's effects *)

\* path-wise three-way comparison of one path
Clean3(a, o, t) == o = t \/ o = a \/ t = a
Merged3(a, o, t) == IF o = t THEN o ELSE IF o = a THEN t ELSE o

\* paths where only one side has an entry: the store may still report them in
\* conflict (rename/rename, directory/file)
OneSided(p) ==
    Cardinality({s \in {"a", "o", "t"} :
        (IF s = "a" THEN ancTree[p] ELSE IF s = "o" THEN localTree[p]
         ELSE remoteTree[p]) # 0}) = 1

ContentConflicts ==
    {p \in Paths : ~Clean3(ancTree[p], localTree[p], remoteTree[p])}

\* Repository::merge_trees(&ancestor, &local_tree, &remote_tree): the stage-0
\* entries of the merge index, given the paths reported in conflict
MergeEntries(cs) ==
    [p \in Paths |->
        IF p \in cs THEN 0 ELSE Merged3(ancTree[p], localTree[p], remoteTree[p])]

\* the conflict idx.conflicts() yields for a path
ConflictOf(p) ==
    [path |-> p, ancestor |-> ancTree[p], our |-> localTree[p],
     their |-> remoteTree[p]]

RECURSIVE SortedPaths(_)
SortedPaths(S) ==
    IF S = {} THEN <<>>
    ELSE LET m == CHOOSE x \in S : \A y \in S : x <= y
         IN <<m>> \o SortedPaths(S \ {m})

\* idx.conflicts()?.collect(): the conflicts in index (path) order
CollectConflicts(cs) ==
    LET ps == SortedPaths(cs) IN [k \in 1..Len(ps) |-> ConflictOf(ps[k])]

\* conflict entries of the repository index that survive a checkout or a re-stage
\* writing `tree`: those of the paths it has no entry for
SurvivingConflicts(cs, tree) == {p \in cs : tree[p] = 0}

\* a checkout without force (safe): a file is updated only where the target
\* differs from the baseline and the file is unmodified against the baseline
SafeCheckout(target, baseline, ws) ==
    [p \in Paths |->
        IF target[p] # baseline[p] /\ ws[p] = baseline[p] THEN target[p] ELSE ws[p]]

-----------------------------------------------------------------------------
(* The repository and the arguments when do_merge is called *)

Rels == {"unborn", "uptodate", "ff", "normal"}

\* conflict entries an earlier operation may have left in the repository index
StaleConflicts == {CHOOSE p \in Paths : \A q \in Paths : p <= q}

\* a Working Set with a local edit in its first tracked file
Dirty(tree) ==
    LET tracked == {p \in Paths : tree[p] # 0} IN
    IF tracked = {} THEN tree
    ELSE [tree EXCEPT ![CHOOSE p \in tracked : \A q \in tracked : p <= q] = DirtyContent]

InitialCommits(r, lt, rt, at) ==
    {[id |-> "B", tree |-> at, parents |-> <<>>],
     [id |-> "R", tree |-> rt, parents |-> IF r = "ff" THEN <<"L">> ELSE <<"B">>]}
    \cup (IF r = "unborn" THEN {}
          ELSE {[id |-> "L", tree |-> lt,
                 parents |-> IF r = "uptodate" THEN <<"R">> ELSE <<"B">>]})

Init ==
    /\ rel \in Rels
    /\ localTree \in (IF rel = "unborn" THEN {EmptyTree} ELSE [Paths -> OurContents])
    /\ remoteTree \in [Paths -> TheirContents]
    /\ ancTree \in (IF rel = "normal" THEN [Paths -> AncContents]
                    ELSE IF rel = "uptodate" THEN {remoteTree} ELSE {localTree})
    /\ branchName \in (IF Analysis(rel).fast_forward THEN Branches ELSE {"main"})
    /\ head = "main"
    /\ \E other \in (IF Analysis(rel).fast_forward THEN {NoId, "B"} ELSE {NoId}) :
          refs = [b \in Branches |->
                    IF b = "main" THEN (IF rel = "unborn" THEN NoId ELSE "L")
                    ELSE other]
    /\ commits = InitialCommits(rel, localTree, remoteTree, ancTree)
    \* the repository is clean, or has a local edit and a stale conflict entry
    /\ \E unclean \in BOOLEAN :
          /\ workset = (IF unclean THEN Dirty(localTree) ELSE localTree)
          /\ repoConflicts = (IF unclean THEN StaleConflicts ELSE {})
    /\ repoIndex = localTree
    /\ idxEntries = EmptyTree
    /\ idxConflicts = {}
    /\ conflicts = <<>>
    /\ hadConflicts = FALSE
    /\ staged = [p \in Paths |-> "none"]
    /\ resolved_count = 0
    /\ i = 0
    /\ resultTree = EmptyTree
    /\ logged = <<>>
    /\ analysisCount = 0
    /\ pre = [refs |-> refs, head |-> head, commits |-> commits,
              workset |-> workset, repoIndex |-> repoIndex,
              repoConflicts |-> repoConflicts]
    /\ trace = <<>>
    /\ result = NoResult
    /\ pc = "analysis"

-----------------------------------------------------------------------------
(* Steps common to every store call *)

\* the call returned Err and `?` returns it from do_merge
Fails(op) ==
    /\ trace' = Append(trace, Entry(op, FALSE))
    /\ result' = StoreError(op)
    /\ pc' = "done"

Succeeds(op, next) ==
    /\ trace' = Append(trace, Entry(op, TRUE))
    /\ result' = result
    /\ pc' = next

\* do_merge returns Ok(()) after the successful call op
Returns(op) ==
    /\ trace' = Append(trace, Entry(op, TRUE))
    /\ result' = Ok
    /\ pc' = "done"

\* a store call that only reads
Lookup(op, at, next) ==
    /\ pc = at
    /\ \/ Succeeds(op, next)
       \/ Fails(op)
    /\ UNCHANGED <<inputs, repo, mergeState, analysisCount>>

-----------------------------------------------------------------------------
(* do_merge *)

\* up-to-date falls into the three-way merge
Dispatch_NoUpToDate(a) ==
    IF a.fast_forward THEN "find_reference" ELSE "head"

\* the normal flag is tested before the fast-forward flag
Dispatch_NormalFirst(a) ==
    IF a.normal THEN "head"
    ELSE IF a.fast_forward THEN "find_reference"
    ELSE "done"

\* where do_merge goes after the analysis (lines 172, 198, 202)
Dispatch(a) ==
    IF a.fast_forward THEN "find_reference"
    ELSE IF a.normal THEN "head"
    ELSE "done"

\* line 169: repo.merge_analysis(&[&fetch_commit])?
MergeAnalysis ==
    /\ pc = "analysis"
    /\ \/ /\ analysisCount' = analysisCount + 1
          /\ IF Dispatch(Analysis(rel)) = "done"
             THEN Returns("merge_analysis")
             ELSE Succeeds("merge_analysis", Dispatch(Analysis(rel)))
       \/ /\ Fails("merge_analysis")
          /\ UNCHANGED analysisCount
    /\ UNCHANGED <<inputs, repo, mergeState>>

\* a reference that is not found sends do_merge into the three-way merge
AfterFindReference_Merge(found) == IF found THEN "ff_set_target" ELSE "head"

\* what the match of lines 175-179 does with the outcome of find_reference
AfterFindReference(found) == IF found THEN "ff_set_target" ELSE "create_reference"

\* line 175: repo.find_reference(&refname); Ok needs the reference to exist, and
\* every Err, whatever its cause, takes the arm of line 179
FindReference ==
    /\ pc = "find_reference"
    /\ \E found \in {f \in BOOLEAN : f => refs[branchName] # NoId} :
          /\ trace' = Append(trace, Entry("find_reference", found))
          /\ pc' = AfterFindReference(found)
    /\ UNCHANGED <<inputs, repo, mergeState, analysisCount, result>>

\* a checkout without force: locally edited files are left alone
ForcedCheckout_Safe(tree) ==
    /\ workset' = SafeCheckout(tree, repoIndex, workset)
    /\ repoIndex' = tree
    /\ repoConflicts' \in {{}, SurvivingConflicts(repoConflicts, tree)}

\* the state after a forced checkout of `tree`: the Working Set and the index
\* entries are overwritten; the index's conflict entries of paths the tree lacks
\* may stay
ForcedCheckout(tree) ==
    /\ workset' = tree
    /\ repoIndex' = tree
    /\ repoConflicts' \in {{}, SurvivingConflicts(repoConflicts, tree)}

\* set_target moves the branch HEAD is on instead of the named one
SetTargetRefs_Current == [refs EXCEPT ![head] = RemoteId]

\* line 13: lb.set_target(rc.id(), &msg)?
SetTargetRefs == [refs EXCEPT ![branchName] = RemoteId]

FfSetTarget ==
    /\ pc = "ff_set_target"
    /\ \/ /\ Succeeds("set_target", "ff_set_head")
          /\ refs' = SetTargetRefs
       \/ /\ Fails("set_target")
          /\ UNCHANGED refs
    /\ UNCHANGED <<inputs, head, commits, workset, repoIndex, repoConflicts,
                   mergeState, analysisCount>>

\* line 14: repo.set_head(&name)?
FfSetHead ==
    /\ pc = "ff_set_head"
    /\ \/ /\ Succeeds("set_head", "ff_checkout_head")
          /\ head' = branchName
       \/ /\ Fails("set_head")
          /\ UNCHANGED head
    /\ UNCHANGED <<inputs, refs, commits, workset, repoIndex, repoConflicts,
                   mergeState, analysisCount>>

\* lines 15-22: repo.checkout_head(force)?; Ok(())
FfCheckoutHead ==
    /\ pc = "ff_checkout_head"
    /\ \/ /\ Returns("checkout_head")
          /\ ForcedCheckout(HeadTree)
       \/ /\ Fails("checkout_head")
          /\ UNCHANGED <<workset, repoIndex, repoConflicts>>
    /\ UNCHANGED <<inputs, refs, head, commits, mergeState, analysisCount>>

\* lines 183-188: repo.reference(&refname, fetch_commit.id(), true, ..)?
CreateReference ==
    /\ pc = "create_reference"
    /\ \/ /\ Succeeds("reference", "cr_set_head")
          /\ refs' = [refs EXCEPT ![branchName] = RemoteId]
       \/ /\ Fails("reference")
          /\ UNCHANGED refs
    /\ UNCHANGED <<inputs, head, commits, workset, repoIndex, repoConflicts,
                   mergeState, analysisCount>>

\* line 189: repo.set_head(&refname)?
CrSetHead ==
    /\ pc = "cr_set_head"
    /\ \/ /\ Succeeds("set_head", "cr_checkout_head")
          /\ head' = branchName
       \/ /\ Fails("set_head")
          /\ UNCHANGED head
    /\ UNCHANGED <<inputs, refs, commits, workset, repoIndex, repoConflicts,
                   mergeState, analysisCount>>

\* lines 190-195: repo.checkout_head(allow_conflicts, conflict_style_merge, force)?
CrCheckoutHead ==
    /\ pc = "cr_checkout_head"
    /\ \/ /\ Returns("checkout_head")
          /\ ForcedCheckout(HeadTree)
       \/ /\ Fails("checkout_head")
          /\ UNCHANGED <<workset, repoIndex, repoConflicts>>
    /\ UNCHANGED <<inputs, refs, head, commits, mergeState, analysisCount>>

\* line 200: repo.reference_to_annotated_commit(&repo.head()?)?
ResolveHead == Lookup("head", "head", "local_tree")

-----------------------------------------------------------------------------
(* normal_merge: the merge index *)

\* line 30: repo.find_commit(local.id())?.tree()?
FindLocalTree == Lookup("find_commit_local", "local_tree", "remote_tree")

\* line 31: repo.find_commit(remote.id())?.tree()?
FindRemoteTree == Lookup("find_commit_remote", "remote_tree", "merge_base")

\* lines 32-34: repo.find_commit(repo.merge_base(local.id(), remote.id())?)?.tree()?
FindAncestorTree == Lookup("merge_base", "merge_base", "merge_trees")

\* the resolver is entered whatever has_conflicts() said
AfterMergeTrees_AlwaysResolve(has_conflicts) == "collect"

\* the branch taken at line 37
AfterMergeTrees(has_conflicts) == IF has_conflicts THEN "collect" ELSE "write_tree"

\* lines 35-37: repo.merge_trees(&ancestor, &local_tree, &remote_tree, None)?
MergeTrees ==
    /\ pc = "merge_trees"
    /\ \/ \E structural \in SUBSET {p \in Paths : OneSided(p)} :
            LET cs == ContentConflicts \cup structural IN
            /\ idxEntries' = MergeEntries(cs)
            /\ idxConflicts' = cs
            /\ hadConflicts' = (cs # {})
            /\ Succeeds("merge_trees", AfterMergeTrees(cs # {}))
       \/ /\ Fails("merge_trees")
          /\ UNCHANGED <<idxEntries, idxConflicts, hadConflicts>>
    /\ UNCHANGED <<inputs, repo, conflicts, staged, resolved_count, i, resultTree,
                   logged, analysisCount>>

\* lines 41-42: resolved_count = 0; conflicts = idx.conflicts()?.collect()?
Collect ==
    /\ pc = "collect"
    /\ \/ /\ Succeeds("conflicts", "pass1")
          /\ conflicts' = CollectConflicts(idxConflicts)
          /\ resolved_count' = 0
          /\ i' = 1
       \/ /\ Fails("conflicts")
          /\ UNCHANGED <<conflicts, resolved_count, i>>
    /\ UNCHANGED <<inputs, repo, idxEntries, idxConflicts, hadConflicts, staged,
                   resultTree, logged, analysisCount>>

\* pass 2 without the test that ours is absent
Pass2Applies_NoOurCheck(c) == c.their # 0

\* pass 3 falls back on the ancestor for whatever is left
Pass3Applies_Fallback(c) == c.ancestor # 0

\* the conditions of lines 45, 60 and 77
Pass1Applies(c) == c.our # 0
Pass2Applies(c) == c.our = 0 /\ c.their # 0
Pass3Applies(c) == c.our = 0 /\ c.their = 0 /\ c.ancestor # 0

\* what idx.add can do with a conflict's entry: return Err; stage it and resolve
\* the path; or return Ok with the path still in conflict (the entry keeps its
\* stage and replaces itself)
AddOutcomes == {"err", "resolved", "kept"}

\* the Ok arms of lines 50-53, 65-69, 82-86
CountResolved(n) == n + 1

\* the record of one idx.add: the path and the side of the entry it was given
AddEntry(path, slot, ok) ==
    [op |-> "index_add", ok |-> ok, path |-> path, slot |-> slot]

\* an add whose Err arm drops the conflict all the same
Add_ErrResolves(path, content, slot, outcome) ==
    /\ trace' = Append(trace, AddEntry(path, slot, outcome # "err"))
    /\ idxEntries' = IF outcome = "resolved"
                     THEN [idxEntries EXCEPT ![path] = content] ELSE idxEntries
    /\ idxConflicts' = IF outcome # "kept"
                       THEN idxConflicts \ {path} ELSE idxConflicts
    /\ staged' = IF outcome = "err" THEN staged ELSE [staged EXCEPT ![path] = slot]
    /\ resolved_count' = IF outcome = "err" THEN resolved_count
                         ELSE CountResolved(resolved_count)

\* idx.add(entry) and the if let Err(e) .. else around it
Add(path, content, slot, outcome) ==
    /\ trace' = Append(trace, AddEntry(path, slot, outcome # "err"))
    /\ idxEntries' = IF outcome = "resolved"
                     THEN [idxEntries EXCEPT ![path] = content] ELSE idxEntries
    /\ idxConflicts' = IF outcome = "resolved"
                       THEN idxConflicts \ {path} ELSE idxConflicts
    /\ staged' = IF outcome = "err" THEN staged ELSE [staged EXCEPT ![path] = slot]
    /\ resolved_count' = IF outcome = "err" THEN resolved_count
                         ELSE CountResolved(resolved_count)

Skip == UNCHANGED <<trace, idxEntries, idxConflicts, staged, resolved_count>>

\* an iteration that also checks the merge index out into the Working Set
PassFrame_ChecksOut ==
    /\ i' = i + 1
    /\ workset' = idxEntries
    /\ UNCHANGED <<inputs, refs, head, commits, repoIndex, repoConflicts, conflicts,
                   hadConflicts, resultTree, logged, analysisCount, result, pc>>

\* what an iteration of a pass leaves alone: it only reads conflicts and calls
\* idx.add
PassFrame ==
    /\ i' = i + 1
    /\ UNCHANGED <<inputs, repo, conflicts, hadConflicts, resultTree, logged,
                   analysisCount, result, pc>>

\* lines 44-55, one iteration
Pass1 ==
    /\ pc = "pass1"
    /\ i <= Len(conflicts)
    /\ LET c == conflicts[i] IN
       IF Pass1Applies(c)
       THEN \E outcome \in AddOutcomes : Add(c.path, c.our, "our", outcome)
       ELSE Skip
    /\ PassFrame

\* lines 59-71, one iteration
Pass2 ==
    /\ pc = "pass2"
    /\ i <= Len(conflicts)
    /\ LET c == conflicts[i] IN
       IF Pass2Applies(c)
       THEN \E outcome \in AddOutcomes : Add(c.path, c.their, "their", outcome)
       ELSE Skip
    /\ PassFrame

\* lines 76-88, one iteration
Pass3 ==
    /\ pc = "pass3"
    /\ i <= Len(conflicts)
    /\ LET c == conflicts[i] IN
       IF Pass3Applies(c)
       THEN \E outcome \in AddOutcomes : Add(c.path, c.ancestor, "ancestor", outcome)
       ELSE Skip
    /\ PassFrame

\* the passes start over while the index has conflicts
NextPass_Again(at, has_conflicts) ==
    IF ~has_conflicts THEN "report"
    ELSE IF at = "pass1" THEN "pass2"
    ELSE IF at = "pass2" THEN "pass3" ELSE "pass1"

\* the pass that follows a finished one: lines 58 and 75 test idx.has_conflicts()
NextPass(at, has_conflicts) ==
    IF at = "pass3" \/ ~has_conflicts THEN "report"
    ELSE IF at = "pass1" THEN "pass2" ELSE "pass3"

\* a for loop ends (lines 55, 71, 88)
EndPass ==
    /\ pc \in {"pass1", "pass2", "pass3"}
    /\ i > Len(conflicts)
    /\ pc' = NextPass(pc, idxConflicts # {})
    /\ i' = 1
    /\ UNCHANGED <<inputs, repo, idxEntries, idxConflicts, conflicts, hadConflicts,
                   staged, resolved_count, resultTree, logged, analysisCount,
                   trace, result>>

\* line 91: info!("Resolved {}/{} conflicts", resolved_count, conflicts.len())
LogLine(level) ==
    [level |-> level, resolved |-> resolved_count, total |-> Len(conflicts)]

Report ==
    /\ pc = "report"
    /\ logged' = Append(logged, LogLine("info"))
    /\ pc' = "write_tree"
    /\ UNCHANGED <<inputs, repo, idxEntries, idxConflicts, conflicts, hadConflicts,
                   staged, resolved_count, i, resultTree, analysisCount, trace,
                   result>>

-----------------------------------------------------------------------------
(* normal_merge: tree, Working Set, repository index, commit *)

\* Index::write_tree_to refuses an index that holds a path in conflict
CanWriteTree(cs) == cs = {}

\* lines 94 and 125: idx.write_tree_to(repo)?
WriteTree ==
    /\ pc = "write_tree"
    /\ \/ /\ CanWriteTree(idxConflicts)
          /\ Succeeds("write_tree", "find_tree")
          /\ resultTree' = idxEntries
       \/ /\ Fails("write_tree")
          /\ UNCHANGED resultTree
    /\ UNCHANGED <<inputs, repo, idxEntries, idxConflicts, conflicts, hadConflicts,
                   staged, resolved_count, i, logged, analysisCount>>

\* lines 97 and 128: repo.find_tree(tree_id)?
FindTree == Lookup("find_tree", "find_tree", "checkout_tree")

\* lines 98-104 and 129-135: repo.checkout_tree(result_tree, force, allow_conflicts(false))?
CheckoutTree ==
    /\ pc = "checkout_tree"
    /\ \/ /\ Succeeds("checkout_tree", "index")
          /\ ForcedCheckout(resultTree)
       \/ /\ Fails("checkout_tree")
          /\ UNCHANGED <<workset, repoIndex, repoConflicts>>
    /\ UNCHANGED <<inputs, refs, head, commits, mergeState, analysisCount>>

\* lines 107 and 138: repo.index()?
OpenIndex == Lookup("index", "index", "add_all")

\* lines 108 and 139: repo_index.add_all(["*"], DEFAULT, None)?: every path of the
\* Working Set is staged, which resolves the conflict entries of those paths
AddAll ==
    /\ pc = "add_all"
    /\ \/ /\ Succeeds("add_all", "index_write")
          /\ repoIndex' = workset
          /\ repoConflicts' = SurvivingConflicts(repoConflicts, workset)
       \/ /\ Fails("add_all")
          /\ UNCHANGED <<repoIndex, repoConflicts>>
    /\ UNCHANGED <<inputs, refs, head, commits, workset, mergeState, analysisCount>>

\* the commit step left out
AfterIndexWrite_NoCommit(had, has_conflicts) ==
    IF had /\ has_conflicts THEN "abort" ELSE "checkout_head"

\* the branch without conflicts verifies the repository index as well
AfterIndexWrite_BothBranches(had, has_conflicts) ==
    IF has_conflicts THEN "abort" ELSE "signature"

\* lines 112 and 143-144: only the branch that found conflicts at line 37
\* verifies repo_index.has_conflicts()
AfterIndexWrite(had, has_conflicts) ==
    IF had /\ has_conflicts THEN "abort" ELSE "signature"

\* lines 109 and 140: repo_index.write()?
IndexWrite ==
    /\ pc = "index_write"
    /\ \/ Succeeds("index_write", AfterIndexWrite(hadConflicts, repoConflicts # {}))
       \/ Fails("index_write")
    /\ UNCHANGED <<inputs, repo, mergeState, analysisCount>>

\* lines 113-117: error!(".. (resolved {}/{}). Aborting merge."); repo.find_commit(local.id())?
AbortFindCommit ==
    /\ pc = "abort"
    /\ logged' = Append(logged, LogLine("error"))
    /\ \/ Succeeds("find_commit_local", "reset")
       \/ Fails("find_commit_local")
    /\ UNCHANGED <<inputs, repo, idxEntries, idxConflicts, conflicts, hadConflicts,
                   staged, resolved_count, i, resultTree, analysisCount>>

\* a mixed reset: the Working Set is left as it is
HardReset_Mixed(id) ==
    /\ refs' = [refs EXCEPT ![head] = id]
    /\ repoIndex' = TreeOf(id)
    /\ repoConflicts' = {}
    /\ workset' = workset

\* repo.reset(local_commit, Hard): the current branch, the index and the Working
\* Set are set to the commit
HardReset(id) ==
    /\ refs' = [refs EXCEPT ![head] = id]
    /\ repoIndex' = TreeOf(id)
    /\ repoConflicts' = {}
    /\ workset' = TreeOf(id)

\* lines 118-119: repo.reset(..)?; return Err(..)
Reset ==
    /\ pc = "reset"
    /\ \/ /\ HardReset(LocalId)
          /\ trace' = Append(trace, Entry("reset", TRUE))
          /\ result' = ConflictError
          /\ pc' = "done"
       \/ /\ Fails("reset")
          /\ UNCHANGED <<refs, repoIndex, repoConflicts, workset>>
    /\ UNCHANGED <<inputs, head, commits, mergeState, analysisCount>>

\* line 146: repo.signature()?
Signature == Lookup("signature", "signature", "find_local")

\* line 147: repo.find_commit(local.id())?
FindLocalCommit == Lookup("find_commit_local", "find_local", "find_remote")

\* line 148: repo.find_commit(remote.id())?
FindRemoteCommit == Lookup("find_commit_remote", "find_remote", "commit")

\* the parents in the wrong order
MergeParents_Swapped == <<RemoteId, LocalId>>

\* line 156: &[&local_commit, &remote_commit]
MergeParents == <<LocalId, RemoteId>>

\* the commit made from the local tree instead of result_tree
MergeCommit_LocalTree == [id |-> "M", tree |-> localTree, parents |-> <<LocalId, RemoteId>>]

\* the commit object of lines 150-157
MergeCommit == [id |-> "M", tree |-> resultTree, parents |-> MergeParents]

\* lines 150-157: repo.commit(Some("HEAD"), &sig, &sig, &msg, &result_tree, parents)?
Commit ==
    /\ pc = "commit"
    /\ \/ /\ Succeeds("commit", "checkout_head")
          /\ commits' = commits \cup {MergeCommit}
          /\ refs' = [refs EXCEPT ![head] = MergeCommit.id]
       \/ /\ Fails("commit")
          /\ UNCHANGED <<commits, refs>>
    /\ UNCHANGED <<inputs, head, workset, repoIndex, repoConflicts, mergeState,
                   analysisCount>>

\* lines 159-160: repo.checkout_head(None)?; Ok(()).  Without options the checkout
\* is a safe one, of HEAD's tree against HEAD's tree as baseline
CheckoutHead ==
    /\ pc = "checkout_head"
    /\ \/ /\ Returns("checkout_head")
          /\ workset' = SafeCheckout(HeadTree, HeadTree, workset)
          /\ repoIndex' = SafeCheckout(HeadTree, HeadTree, repoIndex)
       \/ /\ Fails("checkout_head")
          /\ UNCHANGED <<workset, repoIndex>>
    /\ UNCHANGED <<inputs, refs, head, commits, repoConflicts, mergeState,
                   analysisCount>>

-----------------------------------------------------------------------------

Next ==
    \/ MergeAnalysis
    \/ FindReference
    \/ FfSetTarget
    \/ FfSetHead
    \/ FfCheckoutHead
    \/ CreateReference
    \/ CrSetHead
    \/ CrCheckoutHead
    \/ ResolveHead
    \/ FindLocalTree
    \/ FindRemoteTree
    \/ FindAncestorTree
    \/ MergeTrees
    \/ Collect
    \/ Pass1
    \/ Pass2
    \/ Pass3
    \/ EndPass
    \/ Report
    \/ WriteTree
    \/ FindTree
    \/ CheckoutTree
    \/ OpenIndex
    \/ AddAll
    \/ IndexWrite
    \/ AbortFindCommit
    \/ Reset
    \/ Signature
    \/ FindLocalCommit
    \/ FindRemoteCommit
    \/ Commit
    \/ CheckoutHead

Spec == Init /\ [][Next]_vars

\* do_merge is a sequential function that nothing preempts for ever: a step
\* that can be taken is taken
FairSpec == Spec /\ WF_vars(Next)

-----------------------------------------------------------------------------
(* Properties *)

\* positions of the store call op in the attempt
Calls(op) == {k \in 1..Len(trace) : trace[k].op = op}
Done(op) == \E k \in 1..Len(trace) : trace[k].op = op /\ trace[k].ok

\* K: the conflict entries idx.add accepted
Accepted == Cardinality({k \in Calls("index_add") : trace[k].ok})

NewCommits == commits \ pre.commits

\* the three resolver passes are over
PassesOver == hadConflicts /\ pc \notin {"merge_trees", "collect", "pass1", "pass2", "pass3"}

\* conflicts no pass staged an entry for: no pass applied, or idx.add returned Err
Unstaged == {k \in 1..Len(conflicts) : staged[conflicts[k].path] = "none"}

\* C1: when normal_merge returns the unresolvable-conflict error, the hard reset
\* was the last thing it did, the references and HEAD are as before the merge, the
\* Working Set and the index are the local commit's tree and no commit was made.
C1_AbortRollback ==
    result.kind = "conflict" =>
        /\ pc = "done"
        /\ trace[Len(trace)] = Entry("reset", TRUE)
        /\ refs = pre.refs
        /\ head = pre.head
        /\ workset = localTree
        /\ repoIndex = localTree
        /\ repoConflicts = {}
        /\ commits = pre.commits

\* the abort is returned from a merge that started with an edited Working Set
C1_Witness ==
    /\ result.kind = "conflict"
    /\ pre.workset # localTree
    /\ resultTree # localTree

\* C2: a conflict left without a staged entry after the three passes means
\* do_merge does not succeed and no commit is made; and an idx.add that fails does
\* not end the passes: once they are over, idx.add was tried on every conflict.
C2_ResidualNeverCommitted ==
    /\ (PassesOver /\ Unstaged # {}) =>
          /\ NewCommits = {}
          /\ result.kind # "ok"
          /\ pc = "done" => result.kind \in {"store", "conflict"}
    /\ (PassesOver /\ idxConflicts # {}) => (NewCommits = {} /\ result.kind # "ok")
    /\ \A k \in Calls("index_add") : ~trace[k].ok => (k < Len(trace) \/ pc # "done")
    /\ (PassesOver /\ Len(conflicts) > 0) =>
          Cardinality(Calls("index_add")) = Len(conflicts)

\* do_merge has failed after a pass went on beyond a failed idx.add and staged a
\* later conflict
C2_Witness ==
    /\ pc = "done"
    /\ result.kind = "store"
    /\ Len(conflicts) = 2
    /\ Cardinality(Unstaged) = 1
    /\ \E j, k \in Calls("index_add") : j < k /\ ~trace[j].ok /\ trace[k].ok

C4_MergeCommitShape ==
    \A c \in NewCommits :
        /\ Len(c.parents) = 2
        /\ c.parents[1] = pre.refs[pre.head]
        /\ c.parents[2] = "R"
        /\ c.parents[1] # c.parents[2]
        /\ Done("write_tree")
        /\ c.tree = idxEntries
        /\ refs[head] = c.id
        /\ Cardinality(NewCommits) = 1

C4_Witness ==
    /\ NewCommits # {}
    /\ pc = "done"
    /\ \E c \in NewCommits : c.tree \notin {localTree, remoteTree, ancTree}

\* the slot the precedence ours > theirs > ancestor selects for a conflict
Preferred(c) ==
    IF c.our # 0 THEN "our" ELSE IF c.their # 0 THEN "their" ELSE "ancestor"

SlotContent(c, slot) ==
    IF slot = "our" THEN c.our ELSE IF slot = "their" THEN c.their ELSE c.ancestor

\* C5: for every conflict with a staged entry, the entry staged is ours if ours is
\* present, else theirs if theirs is present, else the ancestor's; and a path the
\* merge index holds as resolved holds that entry's content.
C5_ResolverPrecedence ==
    \A k \in 1..Len(conflicts) :
        LET c == conflicts[k] IN
        /\ staged[c.path] # "none" => staged[c.path] = Preferred(c)
        /\ (staged[c.path] # "none" /\ c.path \notin idxConflicts) =>
              idxEntries[c.path] = SlotContent(c, Preferred(c))
        /\ SlotContent(c, Preferred(c)) # 0

\* one merge whose passes resolved a conflict through pass 2 and, after a
\* conflict that has ours and theirs stayed in the index, ran on
C5_Witness ==
    /\ pc = "report"
    /\ \E j, k \in 1..Len(conflicts) :
          /\ conflicts[j].our # 0 /\ conflicts[j].their # 0
          /\ staged[conflicts[j].path] = "our"
          /\ conflicts[k].our = 0 /\ conflicts[k].their # 0 /\ conflicts[k].ancestor # 0
          /\ staged[conflicts[k].path] = "their"
          /\ idxEntries[conflicts[k].path] = conflicts[k].their

\* C6: when the analysis is neither fast-forward nor normal, do_merge returns
\* success and references, HEAD, Working Set, index and commits are as at the call.
C6_UpToDateNoOp ==
    (~Analysis(rel).fast_forward /\ ~Analysis(rel).normal) =>
        /\ [refs |-> refs, head |-> head, commits |-> commits, workset |-> workset,
            repoIndex |-> repoIndex, repoConflicts |-> repoConflicts] = pre
        /\ (pc = "done" /\ Done("merge_analysis")) => result = Ok
        /\ Len(trace) <= 1

C6_Witness ==
    /\ rel = "uptodate"
    /\ result = Ok
    /\ workset # repoIndex
    /\ repoConflicts # {}

\* C7: a fast-forward analysis with refs/heads/<branch_name> present: when
\* do_merge succeeds that reference is the incoming commit, HEAD is that branch
\* and the Working Set is the incoming commit's tree, local edits or not.
C7_FastForwardResult ==
    (Analysis(rel).fast_forward /\ pre.refs[branchName] # NoId /\ result.kind = "ok") =>
        /\ refs[branchName] = "R"
        /\ head = branchName
        /\ workset = remoteTree

\* fast_forward succeeded on a branch other than the one checked out, over an
\* edited Working Set
C7_Witness ==
    /\ result.kind = "ok"
    /\ Done("set_target")
    /\ pre.workset # localTree
    /\ remoteTree # localTree
    /\ branchName # pre.head

\* C8: the counts the merge reports are K/N, K the entries idx.add accepted and N
\* the conflicts; and with K < N the attempt ends on the abort path with an error
\* that names K out of N.
C8_CountAccounting ==
    /\ \A k \in 1..Len(logged) :
          logged[k].resolved = Accepted /\ logged[k].total = Len(conflicts)
    /\ (pc = "done" /\ logged # <<>> /\ Accepted < Len(conflicts)) =>
          /\ result.kind = "conflict"
          /\ result.counts = <<Accepted, Len(conflicts)>>

\* the synchronization steps of normal_merge, in the order of lines 94-159
SyncSteps == <<"write_tree", "checkout_tree", "add_all", "index_write", "commit",
               "checkout_head">>

\* the same steps as a set
SyncOps == {SyncSteps[n] : n \in 1..Len(SyncSteps)}

\* the step that each synchronization step follows
SyncBefore == [checkout_tree |-> "write_tree", add_all |-> "checkout_tree",
               index_write |-> "add_all", commit |-> "index_write",
               checkout_head |-> "commit"]

\* C9: in a three-way merge a synchronization step is only ever started after the
\* step before it returned Ok, the tree write only after the resolver (if it ran)
\* has finished; a run that succeeds has made each step once, in that order, with
\* the final checkout of HEAD last.
C9_StepOrder ==
    (~Analysis(rel).fast_forward /\ Analysis(rel).normal) =>
        /\ \A k \in 1..Len(trace) :
              LET op == trace[k].op IN
              /\ op \in DOMAIN SyncBefore =>
                    \E j \in 1..(k - 1) : trace[j].op = SyncBefore[op] /\ trace[j].ok
              /\ op = "index_add" => \A j \in 1..(k - 1) : trace[j].op # "write_tree"
              /\ op = "write_tree" => (hadConflicts => Len(logged) >= 1)
              /\ op \in SyncOps => \A j \in 1..(k - 1) : trace[j].op # op
        /\ result.kind = "ok" =>
              /\ \A n \in 1..Len(SyncSteps) : Done(SyncSteps[n])
              /\ trace[Len(trace)] = Entry("checkout_head", TRUE)

\* a successful three-way merge whose resolver staged an entry
C9_Witness ==
    /\ result.kind = "ok"
    /\ Done("commit")
    /\ Accepted = 2

\* C10: a store call that fails is the last call of the attempt and its error is
\* what do_merge returns.  (idx.add on the in-memory merge index is the per-path
\* failure; a find_reference that reports a missing reference as missing is no
\* failure.)
C10_StoreErrorPropagates ==
    \A k \in 1..Len(trace) :
        (/\ ~trace[k].ok
         /\ trace[k].op # "index_add"
         /\ ~(trace[k].op = "find_reference" /\ pre.refs[branchName] = NoId)) =>
            /\ k = Len(trace)
            /\ pc = "done"
            /\ result = StoreError(trace[k].op)

\* the calls of the three-way executor and of the resolver
ThreeWayOps == {"head", "merge_base", "merge_trees", "conflicts", "index_add",
                "write_tree", "find_tree", "checkout_tree", "index", "add_all",
                "index_write", "reset", "signature", "commit"}

\* the calls of fast_forward and of the creation of a missing branch
FastForwardOps == {"find_reference", "set_target", "reference", "set_head"}

\* some call of the set has been made
Ran(ops) == \E k \in 1..Len(trace) : trace[k].op \in ops

\* find_reference did not return the reference
NotFound == \E k \in Calls("find_reference") : ~trace[k].ok

\* C11: a fast-forward analysis whose refs/heads/<branch_name> is not found:
\* do_merge makes the calls reference, set_head, checkout_head in that order and
\* nothing else - no merge base, no tree merge, no resolver, no commit; once made,
\* the reference is the incoming commit and HEAD is that branch, and on success
\* the Working Set and the index are the incoming commit's tree.
C11_MissingBranchFastForward ==
    (Analysis(rel).fast_forward /\ NotFound) =>
        /\ pc \in {"create_reference", "cr_set_head", "cr_checkout_head", "done"}
        /\ \A k \in 3..Len(trace) :
              /\ trace[k].op = <<"reference", "set_head", "checkout_head">>[k - 2]
              /\ trace[k].ok \/ k = Len(trace)
        /\ Len(trace) <= 5
        /\ ~Ran(ThreeWayOps)
        /\ commits = pre.commits
        /\ conflicts = <<>> /\ ~hadConflicts /\ logged = <<>>
        /\ Done("reference") => refs[branchName] = "R"
        /\ Done("set_head") => head = branchName
        /\ result.kind = "ok" =>
              /\ Len(trace) = 5
              /\ refs[branchName] = "R"
              /\ head = branchName
              /\ workset = remoteTree
              /\ repoIndex = remoteTree

\* pulling into an unborn repository has created the branch and filled the
\* Working Set
C11_Witness ==
    /\ rel = "unborn"
    /\ pre.refs[branchName] = NoId
    /\ result.kind = "ok"
    /\ Done("reference")
    /\ workset # pre.workset

\* the merge of one path that only one side changed, or both the same way
PathWise(p) ==
    CASE localTree[p] = remoteTree[p] -> localTree[p]
      [] localTree[p] = ancTree[p] -> remoteTree[p]
      [] remoteTree[p] = ancTree[p] -> localTree[p]

\* merge_trees reported no conflict
CleanMerge == Done("merge_trees") /\ ~hadConflicts

\* C12: when merge_trees reports no conflict, the resolver is never entered
\* (no conflicts() call, no index add, no log line), the abort is never taken
\* (no reset, no conflict error), the merge index has no conflict, and every
\* commit created has two parents and the tree that is, path by path, the
\* three-way merge of ancestor, local and remote.
C12_CleanMerge ==
    CleanMerge =>
        /\ \A op \in {"conflicts", "index_add", "reset"} : Calls(op) = {}
        /\ pc \notin {"collect", "pass1", "pass2", "pass3", "report", "abort", "reset"}
        /\ logged = <<>> /\ conflicts = <<>> /\ resolved_count = 0
        /\ idxConflicts = {}
        /\ result.kind # "conflict"
        /\ \A p \in Paths : Clean3(ancTree[p], localTree[p], remoteTree[p])
        /\ \A c \in NewCommits :
              /\ Len(c.parents) = 2
              /\ \A p \in Paths : c.tree[p] = PathWise(p)
        /\ result.kind = "ok" =>
              /\ Cardinality(NewCommits) = 1
              /\ \A p \in Paths : HeadTree[p] = PathWise(p)

\* local added one file, remote added another: the merge commit has both
C12_Witness ==
    /\ CleanMerge
    /\ result.kind = "ok"
    /\ \E p, q \in Paths :
          /\ ancTree[p] = 0 /\ localTree[p] = 2 /\ remoteTree[p] = 0
          /\ ancTree[q] = 0 /\ localTree[q] = 0 /\ remoteTree[q] = 3
          /\ HeadTree[p] = 2 /\ HeadTree[q] = 3

\* the program is between the conflict detection of line 37 and the log line
\* of line 91
InResolver == pc \in {"collect", "pass1", "pass2", "pass3", "report"}

\* C13: every step taken while the resolver runs (from the detection of
\* conflicts to the report of the count) leaves the Working Set, the
\* repository index, the references, HEAD and the commits as they were; only
\* the merge index and the resolver's own bookkeeping change.
C13_ResolverFrame ==
    [][InResolver => UNCHANGED <<repo, inputs, resultTree>>]_vars

\* the resolver has staged an entry in the merge index and the repository is
\* as do_merge found it
C13_Witness ==
    /\ pc = "report"
    /\ \E k \in 1..Len(conflicts) :
          /\ staged[conflicts[k].path] # "none"
          /\ idxEntries[conflicts[k].path] # 0
          /\ idxEntries[conflicts[k].path] # pre.workset[conflicts[k].path]
    /\ workset = pre.workset
    /\ repoIndex = pre.repoIndex

\* C14: merge_analysis is called once per do_merge, as the first call and on a
\* repository nothing has touched yet; of the three executors (fast_forward,
\* the creation of a missing branch, normal_merge) at most one runs; the
\* three-way one only when the analysis is normal and not fast-forward, the
\* fast-forward ones only when it is fast-forward; and when it is neither,
\* nothing runs.
C14_SingleDispatch ==
    /\ analysisCount <= 1
    /\ \A k \in 1..Len(trace) : trace[k].op = "merge_analysis" <=> k = 1
    /\ pc = "done" => trace # <<>>
    /\ analysisCount = 1 <=> (trace # <<>> /\ trace[1].ok)
    /\ analysisCount = 0 =>
          /\ Len(trace) <= 1
          /\ <<refs, head, commits, workset, repoIndex, repoConflicts>> =
             <<pre.refs, pre.head, pre.commits, pre.workset, pre.repoIndex,
               pre.repoConflicts>>
    \* the three-way executor and the fast-forward ones never both run ..
    /\ LET a == Analysis(rel) IN
       \A k \in 1..Len(trace) :
          /\ trace[k].op \in ThreeWayOps => a.normal /\ ~a.fast_forward
          /\ trace[k].op \in FastForwardOps => a.fast_forward
    \* .. and of the two fast-forward ones only one does
    /\ Analysis(rel).fast_forward => ~(Ran({"set_target"}) /\ Ran({"reference"}))
    /\ (~Analysis(rel).normal /\ ~Analysis(rel).fast_forward) => Len(trace) <= 1

\* an analysis with both flags set has run fast_forward and nothing else
C14_Witness ==
    /\ Analysis(rel).normal /\ Analysis(rel).fast_forward
    /\ analysisCount = 1
    /\ Done("set_target")
    /\ result.kind = "ok"
    /\ refs # pre.refs

\* C15: whenever the analysis is fast-forward, on either path (the branch
\* exists, the branch is created), no commit is created, no reference other
\* than refs/heads/<branch_name> changes, that reference is either as it was
\* or the incoming commit, HEAD is either as it was or that branch, and on
\* success both designate the incoming commit.
C15_FastForwardFrame ==
    Analysis(rel).fast_forward =>
        /\ commits = pre.commits
        /\ \A b \in Branches \ {branchName} : refs[b] = pre.refs[b]
        /\ refs[branchName] \in {pre.refs[branchName], "R"}
        /\ head \in {pre.head, branchName}
        /\ result.kind = "ok" =>
              /\ refs[branchName] = "R"
              /\ head = branchName
              /\ refs[head] = "R"

\* a branch other than the current one has been fast-forwarded and HEAD has
\* moved to it
C15_Witness ==
    /\ Analysis(rel).fast_forward
    /\ result.kind = "ok"
    /\ Done("set_target")
    /\ branchName # pre.head
    /\ pre.refs[branchName] \notin {NoId, "R"}
    /\ refs[branchName] = "R"
    /\ head = branchName

\* the abort of lines 112-119 has been entered
AbortEntered ==
    \/ pc \in {"abort", "reset"}
    \/ Calls("reset") # {}
    \/ result.kind = "conflict"
    \/ \E k \in 1..Len(logged) : logged[k].level = "error"

\* the calls of lines 94-109 in the order of the code
RestageOps == <<"write_tree", "find_tree", "checkout_tree", "index", "add_all",
                "index_write">>

\* they have all succeeded, one after the other, after every index add and
\* before any reset
Restaged ==
    \E w \in 1..(Len(trace) - 5) :
        /\ \A j \in 1..6 : trace[w + j - 1] = Entry(RestageOps[j], TRUE)
        /\ \A k \in Calls("index_add") \cup Calls("conflicts") : k < w
        /\ \A k \in Calls("reset") : w + 5 < k

\* C16: the abort (error log, hard reset, unresolvable-conflict error) is
\* entered only in a run in which merge_trees reported conflicts, the passes
\* are over and the count is logged, the tree was written, the Working Set
\* overwritten and the repository index re-staged and written; until the reset
\* has run that index still has a conflict; the conflict error is returned only
\* after a reset that succeeded.
C16_AbortOnlyOnResidual ==
    AbortEntered =>
        /\ Analysis(rel).normal /\ ~Analysis(rel).fast_forward
        /\ hadConflicts
        /\ PassesOver
        /\ Len(logged) >= 1 /\ logged[1].level = "info"
        /\ Restaged
        /\ resultTree = idxEntries
        /\ pc \in {"abort", "reset"} => repoConflicts # {} /\ workset = resultTree
        /\ result.kind = "conflict" => Done("reset")
        /\ Cardinality(Calls("reset")) <= 1
        /\ NewCommits = {}

\* the hard reset has run after a resolver that took every conflict and a
\* re-staging that succeeded
C16_Witness ==
    /\ result.kind = "conflict"
    /\ Done("reset")
    /\ Len(conflicts) >= 1
    /\ resolved_count = Len(conflicts)
    /\ Done("add_all")
    /\ workset = localTree

\* the idx.add calls made for one path
AddsFor(path) == {k \in Calls("index_add") : trace[k].path = path}

\* the conflict of a path
ConflictAt(path) ==
    conflicts[CHOOSE n \in 1..Len(conflicts) : conflicts[n].path = path]

\* C17: the three passes are mutually exclusive per conflict: over the whole
\* resolver at most one idx.add is made for each conflict, so a conflict is
\* counted at most once and 0 <= resolved_count <= conflicts.len(); an add is
\* made with ours whenever ours is present, so a conflict whose ours entry
\* failed to stage is not tried again with theirs or with the ancestor.
C17_PassesExclusive ==
    /\ 0 <= resolved_count
    /\ resolved_count <= Len(conflicts)
    /\ resolved_count = Accepted
    /\ \A k \in 1..Len(trace) :
          trace[k].op = "index_add" =>
             /\ \E n \in 1..Len(conflicts) : conflicts[n].path = trace[k].path
             /\ \A j \in 1..(k - 1) :
                   trace[j].op = "index_add" => trace[j].path # trace[k].path
             /\ trace[k].slot = Preferred(ConflictAt(trace[k].path))
             /\ ConflictAt(trace[k].path).our # 0 => trace[k].slot = "our"
             /\ staged[trace[k].path] = (IF trace[k].ok THEN trace[k].slot ELSE "none")

\* all passes are over; a conflict with all three sides had its ours entry
\* refused and was left alone, another one was resolved
C17_Witness ==
    /\ PassesOver
    /\ pc = "done"
    /\ \E n \in 1..Len(conflicts) :
          LET c == conflicts[n] IN
          /\ c.our # 0 /\ c.their # 0 /\ c.ancestor # 0
          /\ \E k \in AddsFor(c.path) : ~trace[k].ok
          /\ staged[c.path] = "none"
    /\ resolved_count = 1
    /\ Len(conflicts) = 2

\* the tree of the commit that HEAD designates through the references rs; an
\* unborn branch has no files
TreeAt(rs, h) == IF rs[h] = NoId THEN EmptyTree ELSE TreeOf(rs[h])

\* do_merge was called on a repository whose index and Working Set were those
\* of its HEAD
CleanBefore ==
    /\ pre.workset = TreeAt(pre.refs, pre.head)
    /\ pre.repoIndex = TreeAt(pre.refs, pre.head)
    /\ pre.repoConflicts = {}

\* C18: once do_merge has returned - with success, with the conflict error or
\* with a store error of any step - on a repository that was consistent before
\* the call, the index and the Working Set are the tree of the commit HEAD
\* designates (the pre-merge commit if HEAD has not moved, the new one if it
\* has) and the index has no conflict.
C18_NoHalfMergedExit ==
    (pc = "done" /\ CleanBefore) =>
        /\ workset = TreeAt(refs, head)
        /\ repoIndex = TreeAt(refs, head)
        /\ repoConflicts = {}

\* the calls that the code makes at one place only
OnceOps == {"merge_analysis", "find_reference", "set_target", "reference",
            "set_head", "head", "merge_base", "merge_trees", "conflicts",
            "write_tree", "find_tree", "checkout_tree", "index", "add_all",
            "index_write", "reset", "signature", "commit", "checkout_head"}

\* no step is repeated: a call made at one place is made at most once, a pass
\* is at most one past the last conflict, and idx.add is called at most once
\* for a conflict
NoStepRepeated ==
    /\ \A op \in OnceOps : Cardinality(Calls(op)) <= 1
    /\ Cardinality(Calls("find_commit_local")) <= 2
    /\ Cardinality(Calls("find_commit_remote")) <= 2
    /\ Cardinality(Calls("index_add")) <= Len(conflicts)
    /\ pc \in {"pass1", "pass2", "pass3"} => i \in 1..(Len(conflicts) + 1)

\* do_merge has returned exactly when it has an outcome, one of the three
OneOutcome ==
    /\ pc = "done" <=> result # NoResult
    /\ pc = "done" => result.kind \in {"ok", "conflict", "store"}

\* C19: every do_merge call returns: whatever the analysis and the conflicts,
\* the call reaches its return, from then on nothing changes, it has exactly
\* one outcome (success, conflict error or store error), and on the way no
\* step is repeated and no pass visits a conflict twice.
C19_Termination ==
    /\ <>[](pc = "done")
    /\ [](OneOutcome /\ NoStepRepeated)
    /\ [][pc = "done" => UNCHANGED vars]_vars
    /\ [][(pc' = "done" /\ pc # "done") => result = NoResult]_vars

\* a run through three passes over two conflicts has returned
C19_Witness ==
    /\ pc = "done"
    /\ Len(conflicts) = 2
    /\ Calls("index_add") # {}
    /\ \E n \in 1..2 : Pass3Applies(conflicts[n])
    /\ \E n \in 1..2 : Pass1Applies(conflicts[n])
    /\ result.kind = "store"

====
